---- MODULE Spec2Model ----
(***************************************************************************)
(* Model of the ingestion front-end of kiss-icp:                           *)
(*   python/kiss_icp/datasets/velodyne.py  VelodynePcapLoader              *)
(*   src/kiss_icp/preprocess.py            Stubcessor, Preprocessor        *)
(*                                                                         *)
(* Floating point values are modelled as exact rationals <<n, d>> with     *)
(* d > 0, extended by the three non-finite values numpy produces on a      *)
(* division by zero (NaN, +inf, -inf).  Iterators returned by read_pcap    *)
(* are modelled by the number of pairs already pulled from them.           *)
(***************************************************************************)
EXTENDS Integers, Sequences, FiniteSets, TLC

\* ------------------------------------------------------------------ bounds
MaxFrames == 2      \* longest capture, in frames
MaxStamp == 1       \* device stamps are drawn from 0..MaxStamp
MaxCalls == 3       \* __getitem__ calls followed in one behaviour
MaxPcapPackets == 2 \* longest packet file handed to is_velodyne_pcap
MaxPacketsArg == 1  \* largest max_packets argument
MaxCloud == 2       \* longest point cloud drawn freely (ExampleCloud is added)

VARIABLES
    decoder,          \* which imports of velodyne_decoder succeed
    isfile,           \* os.path.isfile(data_dir)
    capture,          \* the (stamp, scan) pairs read_pcap yields for the file
    phase,            \* "new" | "streaming" | "failed" (the constructor raised)
    self_timestamps,  \* self._timestamps
    self_next_idx,    \* self._next_idx
    self_scans_iter,  \* self._scans_iter: pairs pulled from the second pass
    prepass_iter,     \* pairs pulled from the iterator of the pre-pass
    ncalls,           \* __getitem__ calls made so far
    inOrder,          \* every __getitem__ call so far asked for 0, 1, 2, ...
    delivered,        \* the values __getitem__ has returned, in order
    exhausted,        \* some __getitem__ call has ended in StopIteration
    self_config,      \* Preprocessor.config, <<>> before Preprocessor.__init__
    last              \* the most recent call and how it ended

envVars == <<decoder, isfile, capture>>
streamVars == <<phase, self_timestamps, self_next_idx, self_scans_iter, prepass_iter>>
ghostVars == <<ncalls, inOrder, delivered, exhausted>>
vars == <<decoder, isfile, capture, phase, self_timestamps, self_next_idx,
          self_scans_iter, prepass_iter, ncalls, inOrder, delivered, exhausted,
          self_config, last>>

\* ------------------------------------------------------- float arithmetic
NaN == <<0, 0>>
PosInf == <<1, 0>>
NegInf == <<-1, 0>>

Abs(a) == IF a < 0 THEN -a ELSE a

RECURSIVE GCD(_, _)
GCD(a, b) == IF b = 0 THEN a ELSE GCD(b, a % b)

\* the rational a / b in lowest terms, b # 0
Ratio(a, b) ==
    LET g == GCD(Abs(a), Abs(b))
        s == IF b < 0 THEN -1 ELSE 1
    IN  <<(s * a) \div g, (s * b) \div g>>

IsFinite(v) == v[2] # 0

\* numpy true division of two float scalars/arrays elements: a division by
\* zero only warns and yields nan or +-inf
FloatDiv(a, b) ==
    IF b # 0 THEN Ratio(a, b)
    ELSE IF a = 0 THEN NaN
    ELSE IF a > 0 THEN PosInf
    ELSE NegInf

\* numpy product of the float a (an integer here) and the float value v
FloatMul(a, v) ==
    IF IsFinite(v) THEN Ratio(a * v[1], v[2])
    ELSE IF v = NaN \/ a = 0 THEN NaN
    ELSE IF (a > 0) = (v = PosInf) THEN PosInf
    ELSE NegInf

\* ------------------------------------------------------------ the capture
\* one row of a decoded scan: x, y, z, intensity, time
Row(t) == <<t + 1, 2, 3, 9, t>>

\* the scans a frame may hold: a single point, two points with equal
\* timestamps, and scans with strictly increasing timestamps
Scans ==
    { <<Row(0)>>,
      <<Row(1), Row(1)>>,
      <<Row(0), Row(1)>>,
      <<Row(0), Row(1), Row(4)>> }

Stamps == 0..MaxStamp

Pairs == [device : Stamps, scan : Scans]

RECURSIVE SeqsUpTo(_, _)
SeqsUpTo(S, n) ==
    IF n = 0 THEN {<<>>}
    ELSE LET shorter == SeqsUpTo(S, n - 1)
         IN  shorter \cup {Append(s, x) : s \in {q \in shorter : Len(q) = n - 1}, x \in S}

Captures == SeqsUpTo(Pairs, MaxFrames)

\* read_pcap(self._pcap_file): the pairs a fresh pass over the file yields
read_pcap == capture

NoCall == [op |-> "none", idx |-> -1, outcome |-> "none", ret |-> <<>>]

Call(op, idx, outcome, ret) == [op |-> op, idx |-> idx, outcome |-> outcome, ret |-> ret]

\* ------------------------------------------------ VelodynePcapLoader.__init__
\* `from velodyne_decoder import read_pcap` succeeds
ImportReadPcap(d) == d # "absent"

\* the assertion left out
SourceCheckSkipped(isf) == TRUE

\* assert os.path.isfile(data_dir)
SourceCheck(isf) == isf

\* [stamp.device for stamp, _ in read_pcap(self._pcap_file)]
DeviceStamps(pairs) == [i \in 1..Len(pairs) |-> pairs[i].device]

\* (ts - ts[0]) / (ts[-1] - ts[0]) on a non-empty array
GlobalNormalize(ts) ==
    [i \in 1..Len(ts) |-> FloatDiv(ts[i] - ts[1], ts[Len(ts)] - ts[1])]

\* the value self._timestamps holds when the constructor returns
ConstructedTimestamps(normalized) == <<>>

ConstructFails(outcome, pulled) ==
    /\ phase' = "failed"
    /\ prepass_iter' = pulled
    /\ last' = Call("init", -1, outcome, <<>>)
    /\ UNCHANGED <<self_timestamps, self_next_idx, self_scans_iter>>

VelodynePcapLoader_init ==
    /\ phase = "new"
    /\ IF ~ImportReadPcap(decoder)
       THEN ConstructFails("ImportError", 0)
       ELSE IF ~SourceCheck(isfile)
       THEN ConstructFails("SourceNotFound", 0)
       ELSE LET stamps == DeviceStamps(read_pcap)
            IN  IF Len(stamps) = 0
                THEN ConstructFails("IndexError", Len(read_pcap))
                ELSE /\ phase' = "streaming"
                     /\ prepass_iter' = Len(read_pcap)
                     /\ self_scans_iter' = 0
                     /\ self_next_idx' = 0
                     /\ self_timestamps' = ConstructedTimestamps(GlobalNormalize(stamps))
                     /\ last' = Call("init", -1, "ok", <<>>)
    /\ UNCHANGED <<envVars, ghostVars, self_config>>

\* --------------------------------------------- VelodynePcapLoader.__getitem__
\* the check accepting any index not yet passed
SequentialCheckLoose(next_idx, idx) == next_idx <= idx

\* assert self._next_idx == idx
SequentialCheck(next_idx, idx) == next_idx = idx

\* scan[:, :3]
Positions(scan) == [i \in 1..Len(scan) |-> SubSeq(scan[i], 1, 3)]

\* scan[:, 4]
PointTimes(scan) == [i \in 1..Len(scan) |-> scan[i][5]]

\* (timestamps - timestamps[0]) * (1 / (timestamps[-1] - timestamps[0]))
LocalNormalize(ts) ==
    LET scale == FloatDiv(1, ts[Len(ts)] - ts[1])
    IN  [i \in 1..Len(ts) |-> FloatMul(ts[i] - ts[1], scale)]

\* the pass opened again from the start of the file once it has run out
IterReopened(pos) == 0

\* the position of a generator after next() raised StopIteration: it stays
\* exhausted
IterAfterStop(pos) == pos

\* self._timestamps[k] = value raises IndexError unless 0 <= k < len
InListRange(list, k) == k >= 0 /\ k < Len(list)

\* the stamp appended to the list instead of stored at k
StoreStampAppends(list, k, value) == [ok |-> TRUE, list |-> Append(list, value)]

\* self._timestamps[k] = value: the list afterwards, and whether the store
\* went through (it raises IndexError otherwise)
StoreStamp(list, k, value) ==
    IF InListRange(list, k)
    THEN [ok |-> TRUE, list |-> [list EXCEPT ![k + 1] = value]]
    ELSE [ok |-> FALSE, list |-> list]

GetItemEnds(idx, outcome, ret) ==
    /\ last' = Call("getitem", idx, outcome, ret)
    /\ ncalls' = ncalls + 1
    /\ inOrder' = (inOrder /\ idx = ncalls)
    /\ delivered' = IF outcome = "ok" THEN Append(delivered, ret) ELSE delivered
    /\ exhausted' = (exhausted \/ outcome = "Exhausted")

VelodynePcapLoader_getitem(idx) ==
    /\ phase = "streaming"
    /\ ncalls < MaxCalls
    /\ IF ~SequentialCheck(self_next_idx, idx)
       THEN /\ GetItemEnds(idx, "SequentialAccessViolation", <<>>)
            /\ UNCHANGED <<self_timestamps, self_next_idx, self_scans_iter>>
       ELSE IF self_scans_iter >= Len(read_pcap)
       THEN \* next() raises StopIteration; the iterator stays exhausted
            /\ GetItemEnds(idx, "Exhausted", <<>>)
            /\ self_scans_iter' = IterAfterStop(self_scans_iter)
            /\ UNCHANGED <<self_timestamps, self_next_idx>>
       ELSE LET pair == read_pcap[self_scans_iter + 1]
                k == (self_next_idx + 1) - 1
                stored == StoreStamp(self_timestamps, k, <<pair.device, 1>>)
            IN  /\ self_scans_iter' = self_scans_iter + 1
                /\ self_next_idx' = self_next_idx + 1
                /\ self_timestamps' = stored.list
                /\ IF ~stored.ok
                   THEN GetItemEnds(idx, "IndexError", <<>>)
                   ELSE GetItemEnds(idx, "ok",
                                    <<Positions(pair.scan), LocalNormalize(PointTimes(pair.scan))>>)
    /\ UNCHANGED <<envVars, phase, prepass_iter, self_config>>

\* --------------------------------- get_frames_timestamps and __len__
get_frames_timestamps ==
    /\ phase = "streaming"
    /\ last' = Call("get_frames_timestamps", -1, "ok", self_timestamps)
    /\ UNCHANGED <<envVars, streamVars, ghostVars, self_config>>

VelodynePcapLoader_len ==
    /\ phase = "streaming"
    /\ last' = Call("len", -1, "ok", Len(self_timestamps))
    /\ UNCHANGED <<envVars, streamVars, ghostVars, self_config>>

\* ------------------------------------- VelodynePcapLoader.is_velodyne_pcap
PACKET_SIZE == 1206

\* the sizes and return-mode bytes a packet of a file may have
PacketSizes == {PACKET_SIZE, 512}
PacketModes == {55, 56, 57, 0}
Packets == [size : PacketSizes, mode : PacketModes]

\* the files a path may name: none, or a pcap holding a few packets
PcapFiles ==
    {[exists |-> FALSE, packets |-> <<>>]}
        \cup {[exists |-> TRUE, packets |-> p] : p \in SeqsUpTo(Packets, MaxPcapPackets)}

\* e.name of the ImportError the two import lines raise, "" when they succeed
ImportErrorName(d) ==
    IF d = "absent" THEN "velodyne_decoder"
    ELSE IF d = "no_util" THEN "velodyne_decoder.util"
    ELSE ""

\* the name of the pip package compared instead of the module's
ImportErrorHandledPipName(name) == name = "velodyne-decoder"

\* if e.name == "velodyne_decoder": return False
ImportErrorHandled(name) == name = "velodyne_decoder"

\* parse_packet(packet)[3]
parse_packet_mode(packet) == packet.mode

\* dual_return_mode in [0x37, 0x38, 0x39]
ValidMode(mode) == mode \in {55, 56, 57}

\* the for loop from the packet enumerate numbers i (from 0) on
RECURSIVE PacketLoop(_, _, _)
PacketLoop(packets, i, max_packets) ==
    IF i >= Len(packets) THEN FALSE
    ELSE IF i > max_packets THEN FALSE
    ELSE IF packets[i + 1].size = PACKET_SIZE /\ ValidMode(parse_packet_mode(packets[i + 1]))
    THEN TRUE
    ELSE PacketLoop(packets, i + 1, max_packets)

ProbeEnds(file, max_packets, outcome, result) ==
    last' = Call("is_velodyne_pcap", max_packets, outcome,
                 [file |-> file, result |-> result])

is_velodyne_pcap(file, max_packets) ==
    /\ LET name == ImportErrorName(decoder)
       IN  IF name # ""
           THEN IF ImportErrorHandled(name)
                THEN ProbeEnds(file, max_packets, "returned", FALSE)
                ELSE ProbeEnds(file, max_packets, "ImportError", FALSE)
           ELSE IF ~file.exists
           THEN \* iter_pcap cannot open the file
                ProbeEnds(file, max_packets, "OSError", FALSE)
           ELSE ProbeEnds(file, max_packets, "returned",
                          PacketLoop(file.packets, 0, max_packets))
    /\ UNCHANGED <<envVars, streamVars, ghostVars, self_config>>

\* ------------------------------------------------ Stubcessor, Preprocessor
\* the squared Euclidean norm of a point with integer coordinates
NormSq(p) == p[1] * p[1] + p[2] * p[2] + p[3] * p[3]

\* points at the distances 0, 1, 5, 25, 50 and 60 from the origin
Points == { <<0, 0, 0>>, <<1, 0, 0>>, <<3, 4, 0>>, <<0, 7, 24>>, <<30, 0, 40>>, <<0, 0, 60>> }

ExampleCloud == << <<1, 0, 0>>, <<3, 4, 0>>, <<0, 7, 24>>, <<30, 0, 40>>, <<0, 0, 60>> >>

Clouds == SeqsUpTo(Points, MaxCloud) \cup {ExampleCloud}

\* the ranges a configuration may hold, as floats
Ranges == { <<0, 1>>, <<5, 1>>, <<50, 1>>, PosInf }

Configs == [max_range : Ranges, min_range : Ranges]

\* r <= |p| for a range r >= 0
RangeLeqNorm(r, p) == IsFinite(r) /\ r[1] * r[1] <= NormSq(p) * r[2] * r[2]

\* |p| <= r for a range r >= 0
NormLeqRange(p, r) == ~IsFinite(r) \/ NormSq(p) * r[2] * r[2] <= r[1] * r[1]

\* kiss_icp_pybind._preprocess(kiss_icp_pybind._Vector3dVector(frame), max_range, min_range)
kiss_icp_pybind_preprocess(frame, max_range, min_range) ==
    SelectSeq(frame, LAMBDA p : RangeLeqNorm(min_range, p) /\ NormLeqRange(p, max_range))

\* the stub returning nothing
StubcessorReturnsNothing(frame) == <<>>

Stubcessor_call(frame) == frame

\* the two ranges handed over in the other order
PreprocessorRangesSwapped(config, frame) ==
    kiss_icp_pybind_preprocess(frame, config.min_range, config.max_range)

Preprocessor_call(config, frame) ==
    kiss_icp_pybind_preprocess(frame, config.max_range, config.min_range)

Preprocessor_init(config) ==
    /\ self_config = <<>>
    /\ self_config' = <<config>>
    /\ last' = Call("Preprocessor.init", -1, "ok", [config |-> config])
    /\ UNCHANGED <<envVars, streamVars, ghostVars>>

CallStubcessor(frame) ==
    /\ last' = Call("Stubcessor", -1, "ok", [frame |-> frame, out |-> Stubcessor_call(frame)])
    /\ UNCHANGED <<envVars, streamVars, ghostVars, self_config>>

CallPreprocessor(frame) ==
    /\ self_config # <<>>
    /\ last' = Call("Preprocessor", -1, "ok",
                    [frame |-> frame, out |-> Preprocessor_call(self_config[1], frame)])
    /\ UNCHANGED <<envVars, streamVars, ghostVars, self_config>>

\* ----------------------------------------------------------- specification
Init ==
    /\ decoder \in {"installed", "absent", "no_util"}
    /\ isfile \in BOOLEAN
    /\ capture \in Captures
    /\ phase = "new"
    /\ self_timestamps = <<>>
    /\ self_next_idx = 0
    /\ self_scans_iter = 0
    /\ prepass_iter = 0
    /\ ncalls = 0
    /\ inOrder = TRUE
    /\ delivered = <<>>
    /\ exhausted = FALSE
    /\ self_config = <<>>
    /\ last = NoCall

Next ==
    \/ VelodynePcapLoader_init
    \/ \E idx \in 0..(MaxFrames + 1) : VelodynePcapLoader_getitem(idx)
    \/ get_frames_timestamps
    \/ VelodynePcapLoader_len

Spec == Init /\ [][Next]_vars

\* the format probe: a static method, called on any path, with any decoder
ProbeInit ==
    /\ Init
    /\ isfile = TRUE
    /\ capture = <<>>

ProbeNext ==
    \E file \in PcapFiles, max_packets \in 0..MaxPacketsArg : is_velodyne_pcap(file, max_packets)

ProbeSpec == ProbeInit /\ [][ProbeNext]_vars

\* the range filter: either processor applied to any cloud
FilterInit ==
    /\ Init
    /\ decoder = "installed"
    /\ isfile = TRUE
    /\ capture = <<>>

FilterNext ==
    \/ \E config \in Configs : Preprocessor_init(config)
    \/ \E frame \in Clouds : CallStubcessor(frame)
    \/ \E frame \in Clouds : CallPreprocessor(frame)

FilterSpec == FilterInit /\ [][FilterNext]_vars

\* ------------------------------------------------------------------ claims
N == Len(capture)

Min(a, b) == IF a < b THEN a ELSE b

\* the last __getitem__ call pulled a pair from the second pass
LastCallPulled ==
    /\ last.op = "getitem"
    /\ last.outcome \notin {"SequentialAccessViolation", "Exhausted"}

\* what __getitem__ is to return for a pair
FrameOf(pair) == <<Positions(pair.scan), LocalNormalize(PointTimes(pair.scan))>>

\* C1: after construction on a capture of N frames, the calls frame_at(0),
\* ..., frame_at(N-1) made in that order all succeed, and the next call,
\* frame_at(N), fails with exhaustion.
C1_InOrderCallsSucceedThenExhaust ==
    (phase = "streaming" /\ inOrder) =>
        /\ Len(delivered) = Min(ncalls, N)
        /\ (last.op = "getitem" /\ ncalls <= N) => last.outcome = "ok"
        /\ (last.op = "getitem" /\ ncalls = N + 1) => last.outcome = "Exhausted"

\* C2: a call frame_at(k) with k different from the next expected index
\* fails with a SequentialAccessViolation and changes nothing of the stream:
\* not the next expected index, the live iterator or the recorded timestamps.
C2_BadIndexRejectedWithoutEffect ==
    [][(last'.op = "getitem" /\ ncalls' = ncalls + 1 /\ last'.idx # self_next_idx)
          => /\ last'.outcome = "SequentialAccessViolation"
             /\ UNCHANGED <<streamVars, delivered>>]_vars

\* a rewinding call was rejected after the stream had advanced
C2_Witness ==
    /\ last.op = "getitem"
    /\ last.outcome = "SequentialAccessViolation"
    /\ last.idx = 0
    /\ self_next_idx = 1
    /\ self_scans_iter = 1

\* C3: at any time after construction frame_count() is N, the number of
\* pairs the decoder yields for the capture.
C3_FrameCountIsN ==
    (phase = "streaming" /\ last.op = "len") => last.ret = N

\* C4: global_frame_timestamps() returns the pre-pass result: N values, the
\* device stamps normalized with the first and the last one.
C4_GlobalTimestampsArePrepass ==
    (phase = "streaming" /\ last.op = "get_frames_timestamps") =>
        /\ Len(last.ret) = N
        /\ last.ret = GlobalNormalize(DeviceStamps(capture))

Dist(p) == CHOOSE d \in {0, 1, 5, 25, 50, 60} : d * d = NormSq(p)

\* the indices of the points of frame at a distance within [lo, hi]
KeptIndices(frame, lo, hi) ==
    {j \in 1..Len(frame) :
        /\ IsFinite(lo) /\ lo[1] <= Dist(frame[j]) * lo[2]
        /\ ~IsFinite(hi) \/ Dist(frame[j]) * hi[2] <= hi[1]}

\* C6: the range filter returns exactly the points p of its input with
\* min_range <= |p| <= max_range, both bounds included, in their order.
C6_RangeFilterKeepsBand ==
    last.op = "Preprocessor" =>
        LET frame == last.ret.frame
            out == last.ret.out
            K == KeptIndices(frame, self_config[1].min_range, self_config[1].max_range)
        IN  /\ Len(out) = Cardinality(K)
            /\ \A j \in K : out[Cardinality({k \in K : k <= j})] = frame[j]

\* band [5, 50] on points at the distances 1, 5, 25, 50, 60 gave 5, 25, 50
C6_Witness ==
    /\ last.op = "Preprocessor"
    /\ self_config = <<[max_range |-> <<50, 1>>, min_range |-> <<5, 1>>]>>
    /\ last.ret.frame = ExampleCloud
    /\ last.ret.out = << <<3, 4, 0>>, <<0, 7, 24>>, <<30, 0, 40>> >>

Passthrough == [max_range |-> PosInf, min_range |-> <<0, 1>>]

\* C7: with min_range = 0 and max_range = +infinity, and in the disabled
\* variant, the range filter returns its input, element for element.
C7_PassthroughIsIdentity ==
    /\ last.op = "Stubcessor" => last.ret.out = last.ret.frame
    /\ (last.op = "Preprocessor" /\ self_config = <<Passthrough>>)
          => last.ret.out = last.ret.frame

\* the passthrough band returned a cloud holding the origin unchanged
C7_Witness ==
    /\ last.op = "Preprocessor"
    /\ self_config = <<Passthrough>>
    /\ last.ret.frame = << <<0, 0, 0>>, <<0, 0, 60>> >>
    /\ last.ret.out = last.ret.frame

\* t0 < t1 < ... < tn over at least two points
StrictlyIncreasing(ts) ==
    /\ Len(ts) >= 2
    /\ \A i \in 1..(Len(ts) - 1) : ts[i] < ts[i + 1]

\* (t - t0) / (tn - t0) for every t of ts, tn # t0
AffineMap(ts) == [i \in 1..Len(ts) |-> Ratio(ts[i] - ts[1], ts[Len(ts)] - ts[1])]

\* C8: for a frame with strictly increasing point timestamps t0 < ... < tn,
\* frame_at returns the per-point timestamps (t - t0) / (tn - t0): the first
\* is 0, the last is 1.
C8_LocalTimestampsAreAffine ==
    (LastCallPulled /\ StrictlyIncreasing(PointTimes(capture[self_scans_iter].scan))) =>
        /\ last.outcome = "ok"
        /\ last.ret[2] = AffineMap(PointTimes(capture[self_scans_iter].scan))
        /\ last.ret[2][1] = <<0, 1>>
        /\ last.ret[2][Len(last.ret[2])] = <<1, 1>>

\* C9 as stated: constructing on a path that is no file fails with
\* SourceNotFound, before any decode pass is started.
C9_MissingSourceFailsWithSourceNotFound ==
    (~isfile /\ phase # "new") =>
        /\ phase = "failed"
        /\ last.op = "init" /\ last.outcome = "SourceNotFound"
        /\ prepass_iter = 0 /\ self_scans_iter = 0

\* C9: constructing on a path that is no file fails before any decode pass
\* is started: with SourceNotFound when the decoder can be imported, with
\* the ImportError of the decoder when it cannot.
C9_MissingSourceFailsAtConstruction ==
    (~isfile /\ phase # "new") =>
        /\ phase = "failed"
        /\ last.op = "init"
        /\ last.outcome = IF decoder = "absent" THEN "ImportError" ELSE "SourceNotFound"
        /\ prepass_iter = 0 /\ self_scans_iter = 0

\* a construction on a missing file ended with SourceNotFound
C9_Witness ==
    /\ ~isfile
    /\ phase = "failed"
    /\ last.op = "init" /\ last.outcome = "SourceNotFound"

\* C10: with the decoder absent, looks_like_this_format returns false for
\* any path, raises nothing, and leaves the stream and its passes alone.
C10_ProbeFalseWithoutDecoder ==
    [][(last'.op = "is_velodyne_pcap" /\ decoder = "absent")
          => /\ last'.outcome = "returned"
             /\ last'.ret.result = FALSE
             /\ UNCHANGED streamVars]_vars

\* without the decoder, a file holding a valid packet was answered false
C10_Witness ==
    /\ last.op = "is_velodyne_pcap"
    /\ decoder = "absent"
    /\ last.ret.file = [exists |-> TRUE, packets |-> <<[size |-> PACKET_SIZE, mode |-> 55]>>]
    /\ last.outcome = "returned"
    /\ last.ret.result = FALSE

\* a packet of the expected size carrying a valid return mode
PacketMatches(packet) == packet.size = PACKET_SIZE /\ packet.mode \in {55, 56, 57}

\* C11: looks_like_this_format(source, max_packets) inspects at most
\* max_packets packets: it returns true iff one of the first max_packets
\* packets has the expected size and a valid mode marker.
C11_ProbeReadsAtMostMaxPackets ==
    (last.op = "is_velodyne_pcap" /\ last.outcome = "returned" /\ decoder = "installed") =>
        last.ret.result =
            (\E i \in 1..Min(last.idx, Len(last.ret.file.packets)) :
                PacketMatches(last.ret.file.packets[i]))

\* a <= b for two ranges, each a finite float >= 0 or +infinity
RangeLeq(a, b) == ~IsFinite(b) \/ (IsFinite(a) /\ a[1] * b[2] <= b[1] * a[2])

\* C12: a band with min_range > max_range is rejected when the filter is
\* constructed, so a constructed filter holds a well-formed band, and no
\* later call of it reports a band error.
C12_MalformedBandRejectedAtConstruction ==
    /\ self_config # <<>> => RangeLeq(self_config[1].min_range, self_config[1].max_range)
    /\ last.op = "Preprocessor" => last.outcome = "ok"

\* a single point, or first and last point timestamps equal
Degenerate(ts) == Len(ts) < 2 \/ ts[1] = ts[Len(ts)]

C14_ExhaustedIsAbsorbing ==
    [][exhausted =>
          /\ self_next_idx' = self_next_idx
          /\ delivered' = delivered
          /\ ncalls' = ncalls + 1 => last'.outcome \in {"Exhausted", "SequentialAccessViolation"}]_vars

\* after the exhaustion a call with the expected index failed again
C14_Witness ==
    /\ exhausted
    /\ ncalls = N + 2
    /\ last.op = "getitem"
    /\ last.idx = N
    /\ last.outcome = "Exhausted"
    /\ self_next_idx = N

\* C15: after construction, whatever calls were made, the next expected
\* index equals the number of pairs pulled from the live iterator and lies
\* in 0..N; it never decreases and grows by at most 1 per call; a call is
\* let past the index check only with that one index.
C15_NextIndexCountsPulledPairs ==
    /\ [](phase = "streaming" =>
             /\ self_next_idx = self_scans_iter
             /\ self_next_idx \in 0..N)
    /\ [][phase = "streaming" =>
             /\ self_next_idx' \in {self_next_idx, self_next_idx + 1}
             /\ (ncalls' = ncalls + 1 /\ last'.outcome # "SequentialAccessViolation")
                    => last'.idx = self_next_idx]_vars

\* two pairs pulled in three calls, one of them rejected
C15_Witness ==
    /\ phase = "streaming"
    /\ ncalls = 3
    /\ ~inOrder
    /\ self_next_idx = 2
    /\ self_scans_iter = 2

\* C16: frame_at is all-or-nothing: a call that ends in any error leaves the
\* next expected index and the live iterator as they were before the call,
\* so no frame is consumed without being returned.
C16_FailedCallConsumesNothing ==
    [][(ncalls' = ncalls + 1 /\ last'.outcome # "ok")
          => UNCHANGED <<self_next_idx, self_scans_iter>>]_vars

\* C17: frame_count() is constant over the lifetime of a stream: no call of
\* frame_at, succeeding or failing, of frame_count or of
\* global_frame_timestamps changes the value it returns.
C17_FrameCountIsConstant ==
    /\ [](last.op = "len" => last.ret = Len(self_timestamps))
    /\ [][phase = "streaming" => Len(self_timestamps') = Len(self_timestamps)]_vars

\* frame_count() was asked after calls of frame_at that pulled two pairs
C17_Witness ==
    /\ last.op = "len"
    /\ self_scans_iter = 2
    /\ ncalls >= 2
    /\ last.ret = Len(self_timestamps)

\* C18: construction succeeds for every existing capture file whatever its
\* frame count, 0 and 1 included: the pre-pass normalization neither raises
\* nor yields a non-finite value, and frame_count() is then 0 or 1.
C18_ConstructionSucceedsOnShortCaptures ==
    (ImportReadPcap(decoder) /\ isfile /\ phase # "new") =>
        /\ phase = "streaming"
        /\ N <= 1 =>
              /\ Len(self_timestamps) = N
              /\ \A i \in 1..N : IsFinite(GlobalNormalize(DeviceStamps(capture))[i])
====
